---------------------------- MODULE Spec2Model ----------------------------
(***************************************************************************)
(* A model of astm/mapping.py: the field descriptors, the MetaMapping      *)
(* schema registration, Mapping construction / item access / build /       *)
(* to_astm_record, and the RepeatedComponentField.Proxy list view.         *)
(*                                                                         *)
(* Python objects with identity (Field objects, mapping types, Mapping     *)
(* instances, list objects) live in four heaps indexed by object id;       *)
(* values without identity (None, text, integers, literal sequences and    *)
(* dicts, references, proxies) are records of one uniform shape.           *)
(***************************************************************************)
EXTENDS Integers, Sequences, FiniteSets, TLC

VARIABLES fields, types, insts, lists, proxies, last

vars == <<fields, types, insts, lists, proxies, last>>

-----------------------------------------------------------------------------
(* Python values.  t is the Python type of the value:                      *)
(*   none  None                      text  a unicode string (s)            *)
(*   int   an integer (i)            seq   a literal list/tuple (l)        *)
(*   dict  a literal dict (l: its [k, v] entries, insertion order)         *)
(*   inst  a Mapping instance (i: id in insts)                             *)
(*   list  a list object (i: id in lists)                                  *)
(*   proxy a RepeatedComponentField.Proxy (i: id of self.list,             *)
(*         f: id of self.field, l: the list-subclass storage of the proxy) *)

None_ == [t |-> "none", s |-> "", i |-> 0, l |-> <<>>, f |-> 0]

Text(x) == [t |-> "text", s |-> x, i |-> 0, l |-> <<>>, f |-> 0]

Int_(n) == [t |-> "int", s |-> "", i |-> n, l |-> <<>>, f |-> 0]

Seq_(xs) == [t |-> "seq", s |-> "", i |-> 0, l |-> xs, f |-> 0]

Dict_(kvs) == [t |-> "dict", s |-> "", i |-> 0, l |-> kvs, f |-> 0]

InstRef(id) == [t |-> "inst", s |-> "", i |-> id, l |-> <<>>, f |-> 0]

ListRef(id) == [t |-> "list", s |-> "", i |-> id, l |-> <<>>, f |-> 0]

IsNone(v) == v.t = "none"

\* A field without a name (name=None).
NoName == "<None>"

\* The key None that izip_longest pairs surplus positional arguments with.
NoneKey == "<NoneKey>"

\* Outcome of an operation: "ok" or the failure kind.
OK == "ok"

-----------------------------------------------------------------------------
(* Python dicts with string keys: a sequence of [k, v] in insertion order. *)

RECURSIVE DictIndex(_, _, _)
DictIndex(d, k, n) ==
    IF n > Len(d) THEN 0
    ELSE IF d[n].k = k THEN n
    ELSE DictIndex(d, k, n + 1)

DictHas(d, k) == DictIndex(d, k, 1) # 0

\* d.get(k): None when the key is missing.
DictGet(d, k) == IF DictHas(d, k) THEN d[DictIndex(d, k, 1)].v ELSE None_

\* d[k] = v
DictSet(d, k, v) ==
    IF DictHas(d, k)
    THEN [d EXCEPT ![DictIndex(d, k, 1)] = [k |-> k, v |-> v]]
    ELSE Append(d, [k |-> k, v |-> v])

\* d without key k (the effect of d.pop(k, None) on d).
DictDel(d, k) ==
    LET n == DictIndex(d, k, 1)
    IN  IF n = 0 THEN d
        ELSE SubSeq(d, 1, n - 1) \o SubSeq(d, n + 1, Len(d))

-----------------------------------------------------------------------------
(* Text conversion of integers: unicode(n) and int(text).                  *)

Digits == <<"0", "1", "2", "3", "4", "5", "6", "7", "8", "9">>

RECURSIVE NatToStr(_)
NatToStr(n) ==
    IF n < 10 THEN Digits[n + 1]
    ELSE NatToStr(n \div 10) \o Digits[(n % 10) + 1]

IntToStr(n) == IF n < 0 THEN "-" \o NatToStr(0 - n) ELSE NatToStr(n)

\* Largest magnitude of an integer the parser is asked about.
MaxInt == 12

\* int(s) for a decimal text s: the integer whose decimal text is s.
CanParseInt(s) == \E n \in (0 - MaxInt)..MaxInt : IntToStr(n) = s

StrToInt(s) == CHOOSE n \in (0 - MaxInt)..MaxInt : IntToStr(n) = s

\* make_string without the conversion to text.
make_string_unconverted(value) == value

make_string(value) ==
    CASE value.t = "text" -> value
      [] value.t = "int" -> Text(IntToStr(value.i))
      [] OTHER -> Text("<" \o value.t \o ">")

-----------------------------------------------------------------------------
(* The object heaps.  An operation takes a heap H and returns Res: the     *)
(* heap it leaves behind, "ok" or the kind of the exception raised, and    *)
(* the value returned.                                                     *)
(*   H.fields[id] = [kind, name, default, value, mapping, field]           *)
(*   H.types[id]  = [name, bases, attrs, _fields]                          *)
(*   H.insts[id]  = [cls, _data]                                           *)
(*   H.lists[id]  = the items of the list object                           *)

Heap == [fields |-> fields, types |-> types, insts |-> insts, lists |-> lists]

Res(h, err, val) == [h |-> h, err |-> err, val |-> val]

\* Sequencing: r if it raised, otherwise the continuation K on r.
Bind(r, K(_)) == IF r.err # OK THEN r ELSE K(r)

Entry(k, v) == [k |-> k, v |-> v]

Min(a, b) == IF a < b THEN a ELSE b

\* issubclass(c, m)
RECURSIVE IsSubclass(_, _, _)
IsSubclass(ts, c, m) ==
    \/ c = m
    \/ \E n \in 1..Len(ts[c].bases) : IsSubclass(ts, ts[c].bases[n], m)

\* isinstance(v, m) for a mapping type m
IsInstance(H, v, m) == v.t = "inst" /\ IsSubclass(H.types, H.insts[v.i].cls, m)

\* The class attribute attr as attribute lookup finds it on type c: first in
\* the type's own namespace, then in its bases, left to right (0: none).
RECURSIVE Lookup(_, _, _), LookupBases(_, _, _, _)
Lookup(ts, c, attr) ==
    IF DictHas(ts[c].attrs, attr) THEN DictGet(ts[c].attrs, attr)
    ELSE LookupBases(ts, ts[c].bases, attr, 1)

LookupBases(ts, bs, attr, n) ==
    IF n > Len(bs) THEN 0
    ELSE IF Lookup(ts, bs[n], attr) # 0 THEN Lookup(ts, bs[n], attr)
    ELSE LookupBases(ts, bs, attr, n + 1)

\* Mapping.keys()
Keys(H, id) ==
    LET fs == H.types[H.insts[id].cls]._fields
    IN  [n \in 1..Len(fs) |-> fs[n].k]

\* bool(v)
Truthy(H, v) ==
    CASE v.t = "none" -> FALSE
      [] v.t = "text" -> v.s # ""
      [] v.t = "int" -> v.i # 0
      [] v.t = "seq" -> v.l # <<>>
      [] v.t = "dict" -> v.l # <<>>
      [] v.t = "inst" -> H.insts[v.i]._data # <<>>
      [] v.t = "list" -> H.lists[v.i] # <<>>
      [] OTHER -> TRUE

\* dict(izip_longest(fieldnames, args))
RECURSIVE ZipLongest(_, _, _, _)
ZipLongest(names, args, n, acc) ==
    IF n > Len(names) /\ n > Len(args) THEN acc
    ELSE ZipLongest(names, args, n + 1,
             DictSet(acc,
                     IF n <= Len(names) THEN names[n] ELSE NoneKey,
                     IF n <= Len(args) THEN args[n] ELSE None_))

\* d.update(other)
RECURSIVE DictUpdate(_, _, _)
DictUpdate(d, other, n) ==
    IF n > Len(other) THEN d
    ELSE DictUpdate(DictSet(d, other[n].k, other[n].v), other, n + 1)

\* RepeatedComponentField.Proxy.__init__(self, seq, field): the proxy keeps
\* seq itself as self.list; list.__init__ fills the proxy's own storage with
\* the items seq holds at that moment.
Proxy(H, seq, field) ==
    [t |-> "proxy", s |-> "", i |-> seq.i,
     l |-> IF seq.t = "list" THEN H.lists[seq.i] ELSE seq.l, f |-> field]

RECURSIVE FieldGetValue(_, _, _), FieldSetValue(_, _, _), MappingInit(_, _, _, _),
          Iterate(_, _), PyEq(_, _, _)

\* ComponentField._get_value
ComponentGetValue(H, fid, value) ==
    IF value.t = "dict"
    THEN MappingInit(H, H.fields[fid].mapping, <<>>, value.l)
    ELSE IF IsInstance(H, value, H.fields[fid].mapping)
    THEN Res(H, OK, value)
    ELSE Bind(Iterate(H, value), LAMBDA it :
              MappingInit(it.h, H.fields[fid].mapping, it.val.l, <<>>))

\* IntegerField._get_value: int(value)
IntegerGetValue(H, value) ==
    IF value.t = "int" THEN Res(H, OK, value)
    ELSE IF value.t = "text" /\ CanParseInt(value.s)
    THEN Res(H, OK, Int_(StrToInt(value.s)))
    ELSE Res(H, "ValueError", None_)

\* ConstantField._get_value
ConstantGetValue(H, fid, value) == Res(H, OK, H.fields[fid].value)

\* RepeatedComponentField._get_value handing the proxy a copy of the list.
RepeatedGetValueCopy(H, fid, value) ==
    Res([H EXCEPT !.lists = Append(@, H.lists[value.i])], OK,
        Proxy([H EXCEPT !.lists = Append(@, H.lists[value.i])],
              ListRef(Len(H.lists) + 1), H.fields[fid].field))

\* RepeatedComponentField._get_value
RepeatedGetValue(H, fid, value) ==
    Res(H, OK, Proxy(H, value, H.fields[fid].field))

\* Field._get_value and its overrides: the typed value of a raw value.
FieldGetValue(H, fid, value) ==
    CASE H.fields[fid].kind = "Constant" -> ConstantGetValue(H, fid, value)
      [] H.fields[fid].kind = "Integer" -> IntegerGetValue(H, value)
      [] H.fields[fid].kind = "Component" -> ComponentGetValue(H, fid, value)
      [] H.fields[fid].kind = "Repeated" -> RepeatedGetValue(H, fid, value)
      [] OTHER -> Res(H, OK, value)

\* ConstantField._set_value without the comparison against the bound value.
ConstantSetValueUnchecked(H, fid, value) ==
    Res([H EXCEPT !.fields[fid].value = value], OK, make_string(value))

\* ConstantField._set_value
ConstantSetValue(H, fid, value) ==
    LET fld == H.fields[fid]
    IN  IF ~IsNone(fld.value) /\ fld.value # value
        THEN Res(H, "ReassignmentNotAllowed", None_)
        ELSE Res(IF IsNone(fld.value)
                 THEN [H EXCEPT !.fields[fid].value = value]
                 ELSE H,
                 OK, make_string(value))

\* IntegerField._set_value
IntegerSetValue(H, value) ==
    IF value.t = "int" THEN Res(H, OK, make_string(value))
    ELSE Res(H, "TypeError", None_)

\* TextField._set_value
TextSetValue(H, value) ==
    IF value.t = "text" THEN Res(H, OK, make_string(value))
    ELSE Res(H, "TypeError", None_)

\* ComponentField._set_value
ComponentSetValue(H, fid, value) ==
    IF value.t = "dict"
    THEN MappingInit(H, H.fields[fid].mapping, <<>>, value.l)
    ELSE IF IsInstance(H, value, H.fields[fid].mapping)
    THEN Res(H, OK, value)
    ELSE IF value.t = "text"
    THEN Res(H, "TypeError", None_)
    ELSE Bind(Iterate(H, value), LAMBDA it :
              MappingInit(it.h, H.fields[fid].mapping, it.val.l, <<>>))

\* [field._set_value(item) for item in items]
RECURSIVE CoerceAll(_, _, _, _, _)
CoerceAll(H, fid, items, n, acc) ==
    IF n > Len(items) THEN Res(H, OK, Seq_(acc))
    ELSE Bind(FieldSetValue(H, fid, items[n]), LAMBDA r :
              CoerceAll(r.h, fid, items, n + 1, Append(acc, r.val)))

\* RepeatedComponentField._set_value: a new list of the coerced items.
RepeatedSetValue(H, fid, value) ==
    Bind(Iterate(H, value), LAMBDA it :
    Bind(CoerceAll(it.h, H.fields[fid].field, it.val.l, 1, <<>>), LAMBDA r :
         Res([r.h EXCEPT !.lists = Append(@, r.val.l)], OK,
             ListRef(Len(r.h.lists) + 1))))

\* Field._set_value and its overrides: the raw value of a typed value.
FieldSetValue(H, fid, value) ==
    CASE H.fields[fid].kind = "Text" -> TextSetValue(H, value)
      [] H.fields[fid].kind = "Constant" -> ConstantSetValue(H, fid, value)
      [] H.fields[fid].kind = "Integer" -> IntegerSetValue(H, value)
      [] H.fields[fid].kind = "Component" -> ComponentSetValue(H, fid, value)
      [] H.fields[fid].kind = "Repeated" -> RepeatedSetValue(H, fid, value)
      [] OTHER -> Res(H, OK, make_string(value))

\* [field._get_value(item) for item in items]
RECURSIVE DecodeAll(_, _, _, _, _)
DecodeAll(H, fid, items, n, acc) ==
    IF n > Len(items) THEN Res(H, OK, Seq_(acc))
    ELSE Bind(FieldGetValue(H, fid, items[n]), LAMBDA r :
              DecodeAll(r.h, fid, items, n + 1, Append(acc, r.val)))

\* Field.__get__(instance, owner)
DescGet(H, id, fid) ==
    LET value == DictGet(H.insts[id]._data, H.fields[fid].name)
    IN  IF ~IsNone(value) THEN FieldGetValue(H, fid, value)
        ELSE Res(H, OK, H.fields[fid].default)

\* Field.__set__(instance, value)
DescSet(H, id, fid, value) ==
    Bind(IF IsNone(value) THEN Res(H, OK, value)
         ELSE FieldSetValue(H, fid, value), LAMBDA r :
         Res([r.h EXCEPT !.insts[id]._data =
                  DictSet(@, H.fields[fid].name, r.val)], OK, None_))

\* getattr(instance, attr) for an attribute that is a field of the type
GetAttr(H, id, attr) ==
    LET fid == Lookup(H.types, H.insts[id].cls, attr)
    IN  IF fid = 0 THEN Res(H, "AttributeError", None_)
        ELSE DescGet(H, id, fid)

\* setattr(instance, attr, value) for an attribute that is a field of the type
SetAttr(H, id, attr, value) ==
    LET fid == Lookup(H.types, H.insts[id].cls, attr)
    IN  IF fid = 0 THEN Res(H, "AttributeError", None_)
        ELSE DescSet(H, id, fid, value)

\* The loop of Mapping.__init__ over self._fields; val: what is left of values.
RECURSIVE InitFields(_, _, _, _, _)
InitFields(H, id, schema, n, values) ==
    IF n > Len(schema) THEN Res(H, OK, Dict_(values))
    ELSE Bind(IF IsNone(DictGet(values, schema[n].k))
              THEN GetAttr(H, id, schema[n].k)
              ELSE Res(H, OK, DictGet(values, schema[n].k)), LAMBDA g :
         Bind(SetAttr(g.h, id, schema[n].k, g.val), LAMBDA r :
              InitFields(r.h, id, schema, n + 1, DictDel(values, schema[n].k))))

\* Mapping.__init__(*args, **kwargs) on a new instance of type tid
MappingInit(H, tid, args, kwargs) ==
    LET schema == H.types[tid]._fields
        fieldnames == [n \in 1..Len(schema) |-> schema[n].k]
        id == Len(H.insts) + 1
    IN  Bind(InitFields(
                 [H EXCEPT !.insts = Append(@, [cls |-> tid, _data |-> <<>>])],
                 id, schema, 1,
                 DictUpdate(ZipLongest(fieldnames, args, 1, <<>>), kwargs, 1)),
             LAMBDA r : IF r.val.l # <<>>
                        THEN Res(r.h, "UnexpectedArgument", None_)
                        ELSE Res(r.h, OK, InstRef(id)))

\* Mapping.values(): [getattr(self, key) for key in self.keys()]
RECURSIVE Values(_, _, _, _)
Values(H, id, n, acc) ==
    IF n > Len(Keys(H, id)) THEN Res(H, OK, Seq_(acc))
    ELSE Bind(GetAttr(H, id, Keys(H, id)[n]), LAMBDA r :
              Values(r.h, id, n + 1, Append(acc, r.val)))

\* The items iter(v) yields.  Text is iterable character by character; only
\* the texts of at most one character are split here.
Iterate(H, v) ==
    CASE v.t = "seq" -> Res(H, OK, v)
      [] v.t = "list" -> Res(H, OK, Seq_(H.lists[v.i]))
      [] v.t = "proxy" -> DecodeAll(H, v.f, H.lists[v.i], 1, <<>>)
      [] v.t = "inst" -> Values(H, v.i, 1, <<>>)
      [] v.t = "dict" -> Res(H, OK, Seq_([n \in 1..Len(v.l) |-> Text(v.l[n].k)]))
      [] v.t = "text" /\ Len(v.s) = 0 -> Res(H, OK, Seq_(<<>>))
      [] v.t = "text" /\ Len(v.s) = 1 -> Res(H, OK, Seq_(<<v>>))
      [] OTHER -> Res(H, "TypeError", None_)

\* len(v) (-1: v has no len())
PyLen(H, v) ==
    CASE v.t = "seq" -> Len(v.l)
      [] v.t = "dict" -> Len(v.l)
      [] v.t = "text" -> Len(v.s)
      [] v.t = "list" -> Len(H.lists[v.i])
      [] v.t = "proxy" -> Len(H.lists[v.i])
      [] v.t = "inst" -> Len(H.insts[v.i]._data)
      [] OTHER -> 0 - 1

\* the loop of Mapping.__eq__ over zip(self.keys(), other)
RECURSIVE ZipEq(_, _, _, _)
ZipEq(H, id, items, n) ==
    IF n > Min(Len(Keys(H, id)), Len(items)) THEN Res(H, OK, Int_(1))
    ELSE Bind(GetAttr(H, id, Keys(H, id)[n]), LAMBDA g :
         Bind(PyEq(g.h, g.val, items[n]), LAMBDA e :
              IF e.val.i = 0 THEN Res(e.h, OK, Int_(0))
              ELSE ZipEq(e.h, id, items, n + 1)))

\* Mapping.__eq__(self, other)
MappingEq(H, id, other) ==
    IF PyLen(H, other) < 0 THEN Res(H, "TypeError", None_)
    ELSE IF Len(H.insts[id]._data) # PyLen(H, other) THEN Res(H, OK, Int_(0))
    ELSE Bind(Iterate(H, other), LAMBDA it : ZipEq(it.h, id, it.val.l, 1))

\* a == b; val: Int_(1) for True, Int_(0) for False
PyEq(H, a, b) ==
    IF a.t = "inst" THEN MappingEq(H, a.i, b)
    ELSE IF b.t = "inst" THEN MappingEq(H, b.i, a)
    ELSE Res(H, OK, Int_(IF a = b THEN 1 ELSE 0))

-----------------------------------------------------------------------------
(* Field constructors.                                                     *)

FieldRec(kind, name, default, value, mapping, field) ==
    [kind |-> kind, name |-> name, default |-> default, value |-> value,
     mapping |-> mapping, field |-> field]

\* Allocation of a Field object; val: its id.
NewField(H, rec) ==
    Res([H EXCEPT !.fields = Append(@, rec)], OK, Int_(Len(H.fields) + 1))

\* Field.__init__(name, default), for the kinds that do not override it
FieldInit(H, kind, name, default) ==
    NewField(H, FieldRec(kind, name, default, None_, 0, 0))

\* ConstantField.__init__(name, default)
ConstantFieldInit(H, name, default) ==
    IF ~IsNone(default) /\ default.t # "text"
    THEN Res(H, "AssertionError", None_)
    ELSE NewField(H, FieldRec("Constant", name, default, default, 0, 0))

\* ComponentField.__init__(mapping, name, default)
ComponentFieldInit(H, mapping, name, default) ==
    Bind(IF Truthy(H, default) THEN Res(H, OK, default)
         ELSE MappingInit(H, mapping, <<>>, <<>>), LAMBDA d :
         NewField(d.h, FieldRec("Component", name, d.val, None_, mapping, 0)))

\* RepeatedComponentField.__init__(field, name, default); field is a mapping
\* type (isField = FALSE) or a ComponentField (isField = TRUE)
RepeatedComponentFieldInit(H, isField, field, name, default) ==
    Bind(IF isField THEN Res(H, OK, Int_(field))
         ELSE ComponentFieldInit(H, field, NoName, None_), LAMBDA c :
         IF Truthy(c.h, default)
         THEN NewField(c.h, FieldRec("Repeated", name, default, None_, 0,
                                     c.val.i))
         ELSE NewField([c.h EXCEPT !.lists = Append(@, <<>>)],
                       FieldRec("Repeated", name, ListRef(Len(c.h.lists) + 1),
                                None_, 0, c.val.i)))

-----------------------------------------------------------------------------
(* Schema registration.                                                    *)

TypeRec(name, bases, attrs, fs) ==
    [name |-> name, bases |-> bases, attrs |-> attrs, _fields |-> fs]

\* `not field.name`
HasName(name) == name # NoName /\ name # ""

\* The _fields of the bases, concatenated in base order.
RECURSIVE InheritedFields(_, _, _)
InheritedFields(ts, bases, n) ==
    IF n > Len(bases) THEN <<>>
    ELSE ts[bases[n]]._fields \o InheritedFields(ts, bases, n + 1)

\* The loop of MetaMapping.__new__ over d.items(); items holds the entries
\* of d whose value is a Field, in the order d.items() yields them.
RECURSIVE MetaLoop(_, _, _, _, _)
MetaLoop(H, items, n, seen, fs) ==
    IF n > Len(items) THEN Res(H, OK, Seq_(fs))
    ELSE LET attrname == items[n].k
             attrval == items[n].v
             H1 == IF ~HasName(H.fields[attrval].name)
                   THEN [H EXCEPT !.fields[attrval].name = attrname]
                   ELSE H
         IN  IF attrname \in seen
             THEN Res(H1, "DuplicateFieldName", None_)
             ELSE MetaLoop(H1, items, n + 1, seen \cup {attrname},
                           Append(fs, Entry(attrname, attrval)))

\* MetaMapping.__new__(mcs, name, bases, d): items are the Field-valued
\* entries of d, dfields is d['_fields'] (None_ when d has no such key).
\* val: the id of the new type.
MetaMappingNew(H, name, bases, items, dfields) ==
    Bind(MetaLoop(H, items, 1, {}, InheritedFields(H.types, bases, 1)),
         LAMBDA r :
         Res([r.h EXCEPT !.types =
                  Append(@, TypeRec(name, bases, items,
                                    IF IsNone(dfields) THEN r.val.l
                                    ELSE dfields.l \o r.val.l))],
             OK, Int_(Len(r.h.types) + 1)))

\* The loop of Mapping.build over the fields supplied.
RECURSIVE BuildLoop(_, _, _, _, _)
BuildLoop(H, cls, a, n, fs) ==
    IF n > Len(a) THEN Res(H, OK, Seq_(fs))
    ELSE LET name == H.fields[a[n]].name
         IN  IF name = NoName THEN Res(H, "MissingFieldName", None_)
             ELSE BuildLoop(
                      [H EXCEPT !.types[cls].attrs = DictSet(@, name, a[n])],
                      cls, a, n + 1, Append(fs, Entry(name, a[n])))

\* Mapping.build(cls, *a)
Build(H, cls, a) ==
    Bind(BuildLoop(H, cls, a, 1, <<>>), LAMBDA r :
         MetaMappingNew(r.h, "Generic" \o H.types[cls].name, <<cls>>, <<>>,
                        r.val))

-----------------------------------------------------------------------------
(* Mapping: serialization and item access.                                 *)

\* The generator values(obj) of Mapping.to_astm_record, collected in a list.
RECURSIVE RecordValues(_, _, _, _), RecordItems(_, _, _, _)
RecordValues(H, id, n, acc) ==
    IF n > Len(Keys(H, id)) THEN Res(H, OK, Seq_(acc))
    ELSE LET value == DictGet(H.insts[id]._data, Keys(H, id)[n])
         IN  IF ~DictHas(H.insts[id]._data, Keys(H, id)[n])
             THEN Res(H, "KeyError", None_)
             ELSE IF value.t = "inst"
             THEN Bind(RecordValues(H, value.i, 1, <<>>), LAMBDA r :
                       RecordValues(H, id, n + 1, Append(acc, r.val)))
             ELSE IF value.t = "list"
             THEN Bind(RecordItems(H, H.lists[value.i], 1, acc), LAMBDA r :
                       RecordValues(H, id, n + 1, r.val.l))
             ELSE RecordValues(H, id, n + 1, Append(acc, value))

\* The inner loop of values(obj) over the items of a list value: every item
\* is yielded into the enclosing record.
RecordItems(H, items, n, acc) ==
    IF n > Len(items) THEN Res(H, OK, Seq_(acc))
    ELSE IF items[n].t = "inst"
    THEN Bind(RecordValues(H, items[n].i, 1, <<>>), LAMBDA r :
              RecordItems(H, items, n + 1, Append(acc, r.val)))
    ELSE RecordItems(H, items, n + 1, Append(acc, items[n]))

\* Mapping.to_astm_record(self)
to_astm_record(H, id) == RecordValues(H, id, 1, <<>>)

\* The 1-based position a Python index denotes in a sequence of length n
\* (0: out of range).
PyIndex(n, index) ==
    LET k == IF index < 0 THEN index + n ELSE index
    IN  IF k >= 0 /\ k < n THEN k + 1 ELSE 0

\* Mapping.__setitem__(self, key, value)
MappingSetItem(H, id, key, value) ==
    LET fs == H.types[H.insts[id].cls]._fields
        n == PyIndex(Len(fs), key)
    IN  IF n = 0 THEN Res(H, "IndexError", None_)
        ELSE SetAttr(H, id, fs[n].k, value)

\* Mapping.__delitem__(self, key)
MappingDelItem(H, id, key) ==
    LET fs == H.types[H.insts[id].cls]._fields
        n == PyIndex(Len(fs), key)
    IN  IF n = 0 THEN Res(H, "IndexError", None_)
        ELSE Res([H EXCEPT !.insts[id]._data = DictSet(@, fs[n].k, None_)],
                 OK, None_)

-----------------------------------------------------------------------------
(* RepeatedComponentField.Proxy: the operations on self.list.              *)

\* seq without the item at 1-based position n
RemoveAt(seq, n) == SubSeq(seq, 1, n - 1) \o SubSeq(seq, n + 1, Len(seq))

\* seq with x inserted before 1-based position n
InsertAt(seq, n, x) == SubSeq(seq, 1, n - 1) \o <<x>> \o SubSeq(seq, n, Len(seq))

\* The 1-based position list.insert(index, x) puts x at in a list of length n.
InsertIndex(n, index) ==
    LET k == IF index < 0 THEN index + n ELSE index
    IN  IF k < 0 THEN 1 ELSE IF k > n THEN n + 1 ELSE k + 1

\* Proxy.__getitem__(self, index)
ProxyGetItem(H, p, index) ==
    LET n == PyIndex(Len(H.lists[p.i]), index)
    IN  IF n = 0 THEN Res(H, "IndexError", None_)
        ELSE FieldGetValue(H, p.f, H.lists[p.i][n])

\* Proxy.__setitem__(self, index, value)
ProxySetItem(H, p, index, value) ==
    Bind(FieldSetValue(H, p.f, value), LAMBDA r :
         LET n == PyIndex(Len(r.h.lists[p.i]), index)
         IN  IF n = 0 THEN Res(r.h, "IndexError", None_)
             ELSE Res([r.h EXCEPT !.lists[p.i][n] = r.val], OK, None_))

\* Proxy.__delitem__(self, index)
ProxyDelItem(H, p, index) ==
    LET n == PyIndex(Len(H.lists[p.i]), index)
    IN  IF n = 0 THEN Res(H, "IndexError", None_)
        ELSE Res([H EXCEPT !.lists[p.i] = RemoveAt(@, n)], OK, None_)

\* Proxy.append(self, item)
ProxyAppend(H, p, item) ==
    Bind(FieldSetValue(H, p.f, item), LAMBDA r :
         Res([r.h EXCEPT !.lists[p.i] = Append(@, r.val)], OK, None_))

\* Proxy.extend that appends each item as soon as it is coerced.
RECURSIVE ProxyExtendEach(_, _, _, _)
ProxyExtendEach(H, p, items, n) ==
    IF n > Len(items) THEN Res(H, OK, None_)
    ELSE Bind(FieldSetValue(H, p.f, items[n]), LAMBDA r :
              ProxyExtendEach([r.h EXCEPT !.lists[p.i] = Append(@, r.val)],
                              p, items, n + 1))

ProxyExtendStepwise(H, p, other) ==
    Bind(Iterate(H, other), LAMBDA it : ProxyExtendEach(it.h, p, it.val.l, 1))

\* Proxy.extend(self, other)
ProxyExtend(H, p, other) ==
    Bind(Iterate(H, other), LAMBDA it :
    Bind(CoerceAll(it.h, p.f, it.val.l, 1, <<>>), LAMBDA r :
         Res([r.h EXCEPT !.lists[p.i] = @ \o r.val.l], OK, None_)))

\* Proxy.insert(self, index, object)
ProxyInsert(H, p, index, object) ==
    Bind(FieldSetValue(H, p.f, object), LAMBDA r :
         Res([r.h EXCEPT !.lists[p.i] =
                  InsertAt(@, InsertIndex(Len(@), index), r.val)], OK, None_))

\* list.remove(value) on the list object lid: the first item equal to value
RECURSIVE ListRemove(_, _, _, _)
ListRemove(H, lid, value, n) ==
    IF n > Len(H.lists[lid]) THEN Res(H, "ItemNotFound", None_)
    ELSE Bind(PyEq(H, H.lists[lid][n], value), LAMBDA e :
              IF e.val.i = 1
              THEN Res([e.h EXCEPT !.lists[lid] = RemoveAt(@, n)], OK, None_)
              ELSE ListRemove(e.h, lid, value, n + 1))

\* The loop of Proxy.remove over `for item in self`: index runs over
\* range(len(self)), item is self[index].
RECURSIVE ProxyRemoveLoop(_, _, _, _, _)
ProxyRemoveLoop(H, p, value, index, len) ==
    IF index >= len THEN Res(H, "ItemNotFound", None_)
    ELSE Bind(ProxyGetItem(H, p, index), LAMBDA g :
         Bind(PyEq(g.h, g.val, value), LAMBDA e :
              IF e.val.i = 1 THEN ListRemove(e.h, p.i, value, 1)
              ELSE ProxyRemoveLoop(e.h, p, value, index + 1, len)))

\* Proxy.remove(self, value)
ProxyRemove(H, p, value) == ProxyRemoveLoop(H, p, value, 0, Len(H.lists[p.i]))

\* Proxy.pop(self, index=-1)
ProxyPop(H, p, index) ==
    LET n == PyIndex(Len(H.lists[p.i]), index)
    IN  IF n = 0 THEN Res(H, "IndexError", None_)
        ELSE FieldGetValue([H EXCEPT !.lists[p.i] = RemoveAt(@, n)], p.f,
                           H.lists[p.i][n])

-----------------------------------------------------------------------------
(* The state after `import astm.mapping`: the types _MappingProxy,         *)
(* Mapping, Record and Component, no field, no instance, no list.          *)

EmptyHeap == [fields |-> <<>>, types |-> <<>>, insts |-> <<>>, lists |-> <<>>]

MappingProxyT == 1

MappingT == 2

RecordT == 3

ComponentT == 4

ModuleHeap ==
    LET h1 == MetaMappingNew(EmptyHeap, "_MappingProxy", <<>>, <<>>, None_).h
        h2 == MetaMappingNew(h1, "Mapping", <<MappingProxyT>>, <<>>, None_).h
        h3 == MetaMappingNew(h2, "Record", <<MappingT>>, <<>>, None_).h
    IN  MetaMappingNew(h3, "Component", <<MappingT>>, <<>>, None_).h

-----------------------------------------------------------------------------
(* Steps.  An operation that raises leaves behind the objects it changed;  *)
(* the objects it allocated and nothing refers to are dropped.             *)

\* No reference in v to an instance above n or a list above m.
RECURSIVE RefsWithin(_, _, _)
RefsWithin(v, n, m) ==
    CASE v.t = "inst" -> v.i <= n
      [] v.t = "list" -> v.i <= m
      [] v.t = "proxy" -> v.i <= m
      [] v.t = "seq" -> \A k \in 1..Len(v.l) : RefsWithin(v.l[k], n, m)
      [] v.t = "dict" -> \A k \in 1..Len(v.l) : RefsWithin(v.l[k].v, n, m)
      [] OTHER -> TRUE

\* The heap an operation that raised leaves: h, without the instances and
\* lists allocated since h0 when no older object refers to one of them.
Collect(h0, h) ==
    LET n == Len(h0.insts)
        m == Len(h0.lists)
    IN  IF /\ \A k \in 1..Len(h.fields) :
                  /\ RefsWithin(h.fields[k].default, n, m)
                  /\ RefsWithin(h.fields[k].value, n, m)
           /\ \A k \in 1..n : \A e \in 1..Len(h.insts[k]._data) :
                  RefsWithin(h.insts[k]._data[e].v, n, m)
           /\ \A k \in 1..m : \A e \in 1..Len(h.lists[k]) :
                  RefsWithin(h.lists[k][e], n, m)
        THEN [h EXCEPT !.insts = SubSeq(@, 1, n), !.lists = SubSeq(@, 1, m)]
        ELSE h

Settle(h0, r) == IF r.err = OK THEN r.h ELSE Collect(h0, r.h)

\* The record of the operation last called: its name, its target (a type,
\* an instance or a proxy), its arguments, and how it ended.
Call(op, target, key, args, kwargs, r) ==
    [op |-> op, target |-> target, key |-> key, args |-> args,
     kwargs |-> kwargs, err |-> r.err, val |-> r.val]

NoCall == [op |-> "import", target |-> 0, key |-> 0, args |-> <<>>,
           kwargs |-> <<>>, err |-> OK, val |-> None_]

\* The step of an operation that left heap h and is recorded as call.
Finish(h, call) ==
    /\ fields' = h.fields
    /\ types' = h.types
    /\ insts' = h.insts
    /\ lists' = h.lists
    /\ last' = call

Step(op, target, key, args, kwargs, r) ==
    Finish(Settle(Heap, r), Call(op, target, key, args, kwargs, r))

\* inst = tid(*args, **kwargs)
DoConstruct(tid, args, kwargs) ==
    /\ Step("construct", tid, 0, args, kwargs,
            MappingInit(Heap, tid, args, kwargs))
    /\ UNCHANGED proxies

\* inst[key] = value
DoSetItem(id, key, value) ==
    /\ Step("setitem", id, key, <<value>>, <<>>,
            MappingSetItem(Heap, id, key, value))
    /\ UNCHANGED proxies

\* del inst[key]
DoDelItem(id, key) ==
    /\ Step("delitem", id, key, <<>>, <<>>, MappingDelItem(Heap, id, key))
    /\ UNCHANGED proxies

-----------------------------------------------------------------------------
(* Constant fields.  The program has built                                 *)
(*     K   = Record.build(ConstantField(name='c'), IntegerField(name='n')) *)
(*     Hdr = Record.build(ConstantField(name='type', default='H'),         *)
(*                        IntegerField(name='seq'))                        *)
(* and constructs instances, assigns and deletes items.                    *)

KT == Len(ModuleHeap.types) + 1

HdrT == Len(ModuleHeap.types) + 2

ConstHeap ==
    Bind(ConstantFieldInit(ModuleHeap, "c", None_), LAMBDA c :
    Bind(FieldInit(c.h, "Integer", "n", None_), LAMBDA n :
    Bind(Build(n.h, RecordT, <<c.val.i, n.val.i>>), LAMBDA k :
    Bind(ConstantFieldInit(k.h, "type", Text("H")), LAMBDA t :
    Bind(FieldInit(t.h, "Integer", "seq", None_), LAMBDA q :
         Build(q.h, RecordT, <<t.val.i, q.val.i>>)))))).h

\* The values the program passes for a scalar field.
ScalarVals == {None_, Text("H"), Text("W"), Int_(1)}

\* The positional argument lists and the keyword arguments of a construction.
ConstArgs == {<<>>, <<Text("H")>>, <<Text("W")>>, <<Text("W"), Text("W")>>,
              <<Text("H"), Int_(1)>>}

ConstKwargs == {<<>>, <<Entry("seq", Int_(1))>>}

InitConst ==
    /\ fields = ConstHeap.fields
    /\ types = ConstHeap.types
    /\ insts = ConstHeap.insts
    /\ lists = ConstHeap.lists
    /\ proxies = <<>>
    /\ last = NoCall

\* Bound on the number of instances of K and Hdr.
MaxConstInsts == 1

NextConst ==
    \/ \E tid \in {KT, HdrT}, args \in ConstArgs, kwargs \in ConstKwargs :
           /\ DoConstruct(tid, args, kwargs)
           /\ Len(insts') <= MaxConstInsts
    \/ \E id \in 1..Len(insts), key \in 0..1, value \in ScalarVals :
           DoSetItem(id, key, value)
    \/ \E id \in 1..Len(insts), key \in 0..1 : DoDelItem(id, key)

SpecConst == InitConst /\ [][NextConst]_vars

\* The field that inst[key] = value assigns on instance id (0: none).
ItemField(id, key) ==
    LET fs == types[insts[id].cls]._fields
        n == PyIndex(Len(fs), key)
    IN  IF n = 0 THEN 0 ELSE Lookup(types, insts[id].cls, fs[n].k)

\* C3: once a Constant field is bound to a value v, no step changes the
\* bound value; an item assignment of a value that is not None and differs
\* from v fails with ReassignmentNotAllowed and leaves the raw store of the
\* instance as it was; an item assignment of v itself succeeds.
C3_ConstantBinding ==
    [][\A f \in 1..Len(fields) :
          (fields[f].kind = "Constant" /\ ~IsNone(fields[f].value)) =>
             /\ fields'[f].value = fields[f].value
             /\ (last'.op = "setitem" /\ ItemField(last'.target, last'.key) = f) =>
                   /\ (~IsNone(last'.args[1]) /\ last'.args[1] # fields[f].value) =>
                         /\ last'.err = "ReassignmentNotAllowed"
                         /\ insts'[last'.target]._data = insts[last'.target]._data
                   /\ last'.args[1] = fields[f].value => last'.err = OK
      ]_vars

\* An assignment to the constant of a K instance, bound by an earlier set,
\* has been refused.
C3_Witness ==
    /\ last.op = "setitem"
    /\ last.err = "ReassignmentNotAllowed"
    /\ insts[last.target].cls = KT
    /\ ItemField(last.target, last.key) # 0
    /\ fields[ItemField(last.target, last.key)].kind = "Constant"

\* C9: the construction of a new instance of K, whose Constant field has no
\* default, never fails with ReassignmentNotAllowed: what other instances
\* or earlier constructions bound does not reach the new instance.
C9_InstanceIndependence ==
    (last.op = "construct" /\ last.target = KT) =>
        last.err # "ReassignmentNotAllowed"

\* The construction Hdr(seq=1) has just returned.
HdrSeq1 ==
    /\ last.op = "construct"
    /\ last.target = HdrT
    /\ last.args = <<>>
    /\ last.kwargs = <<Entry("seq", Int_(1))>>

\* C6 (as amended): Hdr(seq=1).to_astm_record() is ["H", "1"]: the default
\* of the constant, and the decimal text of the integer.
C6_HeaderRecord ==
    HdrSeq1 =>
        /\ last.err = OK
        /\ to_astm_record(Heap, last.val.i).err = OK
        /\ to_astm_record(Heap, last.val.i).val = Seq_(<<Text("H"), Text("1")>>)

C6_Witness == HdrSeq1 /\ last.err = OK /\ last.val.t = "inst"

\* C6 as stated: Hdr(seq=1).to_astm_record() is ["H", 1], with the integer 1.
C6_Original ==
    HdrSeq1 =>
        /\ last.err = OK
        /\ to_astm_record(Heap, last.val.i).val = Seq_(<<Text("H"), Int_(1)>>)

-----------------------------------------------------------------------------
(* Repeated components.  The program has built                             *)
(*     Item = Component.build(TextField(name='a'), IntegerField(name='b')) *)
(*     Rec  = Record.build(IntegerField(name='seq'),                       *)
(*                         RepeatedComponentField(Item, name='items'))     *)
(* It constructs instances of Rec, reads their items field, which gives a  *)
(* proxy, and writes through the proxies it holds.  proxies[k] is a proxy  *)
(* together with the instance it was read from.                            *)

ItemT == Len(ModuleHeap.types) + 1

RecT == Len(ModuleHeap.types) + 2

ProxyHeap ==
    Bind(FieldInit(ModuleHeap, "Text", "a", None_), LAMBDA a :
    Bind(FieldInit(a.h, "Integer", "b", None_), LAMBDA b :
    Bind(Build(b.h, ComponentT, <<a.val.i, b.val.i>>), LAMBDA t :
    Bind(FieldInit(t.h, "Integer", "seq", None_), LAMBDA q :
    Bind(RepeatedComponentFieldInit(q.h, FALSE, t.val.i, "items", None_),
         LAMBDA r : Build(r.h, RecordT, <<q.val.i, r.val.i>>)))))).h

\* Items the program supplies: a positional form and a dict form that the
\* item coercion accepts, and a positional form with a text where the
\* integer belongs, which it rejects.
GoodItems == {Seq_(<<Text("x"), Int_(1)>>),
              Dict_(<<Entry("a", Text("y")), Entry("b", Int_(2))>>)}

BadItems == {Seq_(<<Text("x"), Text("y")>>)}

Items == GoodItems \cup BadItems

\* The batches passed to extend and to the constructor.
Batches == {Seq_(<<>>)} \cup {Seq_(<<Seq_(<<Text("x"), Int_(1)>>), y>>) : y \in Items}

Indexes == {0 - 1, 0}

\* Bounds on the instances, the lists and the proxies of the scenario.
MaxProxyInsts == 4

MaxProxyLists == 3

MaxProxies == 2

InitProxy ==
    /\ fields = ProxyHeap.fields
    /\ types = ProxyHeap.types
    /\ insts = ProxyHeap.insts
    /\ lists = ProxyHeap.lists
    /\ proxies = <<>>
    /\ last = NoCall

FitsProxy == Len(insts') <= MaxProxyInsts /\ Len(lists') <= MaxProxyLists

\* p = inst.items, for an instance the program holds no proxy of yet
DoReadProxy(id) ==
    /\ insts[id].cls = RecT
    /\ Len(proxies) < MaxProxies
    /\ \A k \in 1..Len(proxies) : proxies[k].owner # id
    /\ GetAttr(Heap, id, "items").val.t = "proxy"
    /\ Step("read", id, 0, <<>>, <<>>, GetAttr(Heap, id, "items"))
    /\ proxies' = Append(proxies,
                         [p |-> GetAttr(Heap, id, "items").val, owner |-> id])

\* A write through the proxy proxies[k], whose outcome is r.
ProxyStep(op, k, index, args, r) ==
    /\ Step(op, k, index, args, <<>>, r)
    /\ FitsProxy
    /\ UNCHANGED proxies

NextProxy ==
    \/ \E args \in {<<>>} \cup {<<Int_(1), b>> : b \in Batches} :
           DoConstruct(RecT, args, <<>>) /\ FitsProxy
    \/ \E id \in 1..Len(insts) : DoReadProxy(id) /\ FitsProxy
    \/ \E k \in 1..Len(proxies), index \in Indexes, item \in Items :
           ProxyStep("proxy.setitem", k, index, <<item>>,
                     ProxySetItem(Heap, proxies[k].p, index, item))
    \/ \E k \in 1..Len(proxies), item \in Items :
           ProxyStep("proxy.append", k, 0, <<item>>,
                     ProxyAppend(Heap, proxies[k].p, item))
    \/ \E k \in 1..Len(proxies), batch \in Batches :
           ProxyStep("proxy.extend", k, 0, <<batch>>,
                     ProxyExtend(Heap, proxies[k].p, batch))
    \/ \E k \in 1..Len(proxies), index \in Indexes, item \in Items :
           ProxyStep("proxy.insert", k, index, <<item>>,
                     ProxyInsert(Heap, proxies[k].p, index, item))
    \/ \E k \in 1..Len(proxies), value \in {Seq_(<<Text("x"), Int_(1)>>)} :
           ProxyStep("proxy.remove", k, 0, <<value>>,
                     ProxyRemove(Heap, proxies[k].p, value))
    \/ \E k \in 1..Len(proxies), index \in Indexes :
           ProxyStep("proxy.pop", k, index, <<>>,
                     ProxyPop(Heap, proxies[k].p, index))
    \/ \E k \in 1..Len(proxies), index \in Indexes :
           ProxyStep("proxy.delitem", k, index, <<>>,
                     ProxyDelItem(Heap, proxies[k].p, index))

SpecProxy == InitProxy /\ [][NextProxy]_vars

\* The raw value an instance stores for its items field.
RawItems(id) == DictGet(insts[id]._data, "items")

\* C1: to_astm_record returns one entry per declared field, and the entry of
\* a repeated-component field holding k items is a single list of the k
\* items' own records, in insertion order.
C1_OneEntryPerField ==
    \A id \in 1..Len(insts) :
        (insts[id].cls = RecT /\ to_astm_record(Heap, id).err = OK) =>
            /\ Len(to_astm_record(Heap, id).val.l) = Len(types[RecT]._fields)
            /\ to_astm_record(Heap, id).val.l[2]
                   = RecordItems(Heap, lists[RawItems(id).i], 1, <<>>).val

\* C4: a proxy read from an owner's repeated-component field views the very
\* list the owner's raw store holds: a later read of the field views the same
\* list and iterates to the same items, and the owner's record shows the items
\* of the proxy's list in order.
C4_ProxyAliasing ==
    \A k \in 1..Len(proxies) :
        /\ RawItems(proxies[k].owner) = ListRef(proxies[k].p.i)
        /\ GetAttr(Heap, proxies[k].owner, "items").err = OK
        /\ GetAttr(Heap, proxies[k].owner, "items").val.i = proxies[k].p.i
        /\ Iterate(Heap, GetAttr(Heap, proxies[k].owner, "items").val).val
               = Iterate(Heap, proxies[k].p).val
        /\ to_astm_record(Heap, proxies[k].owner).val
               = RecordItems(Heap, lists[proxies[k].p.i], 1,
                     <<DictGet(insts[proxies[k].owner]._data, "seq")>>).val

\* A proxy holds two items after a successful write through it.
C4_Witness ==
    /\ last.op \in {"proxy.append", "proxy.extend", "proxy.insert",
                    "proxy.setitem", "proxy.pop", "proxy.delitem",
                    "proxy.remove"}
    /\ last.err = OK
    /\ Len(lists[proxies[last.target].p.i]) >= 2
    /\ Len(to_astm_record(Heap, proxies[last.target].owner).val.l) = 3

\* C7: an index-assign, append, insert or extend through a proxy that fails
\* leaves every list and every instance as it was; one that succeeds leaves
\* only instances of the nested mapping type in the proxy's list.
C7_ValidateBeforeMutate ==
    [][last'.op \in {"proxy.setitem", "proxy.append", "proxy.insert",
                     "proxy.extend"} =>
          /\ last'.err # OK => lists' = lists /\ insts' = insts
          /\ last'.err = OK =>
                \A n \in 1..Len(lists'[proxies[last'.target].p.i]) :
                    IsInstance(Heap',
                               lists'[proxies[last'.target].p.i][n], ItemT)]_vars

\* An extend whose batch starts with an accepted item and holds a rejected
\* one has failed on a list that is not empty.
C7_Witness ==
    /\ last.op = "proxy.extend"
    /\ last.err # OK
    /\ last.args[1].l[1] \in GoodItems
    /\ Len(lists[proxies[last.target].p.i]) > 0

-----------------------------------------------------------------------------
(* Schema registration.  The program has declared                          *)
(*     class A(Record): x = TextField()                                    *)
(* It declares subclasses of Record and of A, builds types from them, and  *)
(* constructs instances.  A field is written [kind, name], the name being  *)
(* None when the Field is constructed without one.                         *)

AT == Len(ModuleHeap.types) + 1

SchemaHeap ==
    Bind(FieldInit(ModuleHeap, "Text", NoName, None_), LAMBDA x :
         MetaMappingNew(x.h, "A", <<RecordT>>, <<Entry("x", x.val.i)>>,
                        None_)).h

FieldSpec(kind, name) == Seq_(<<Text(kind), name>>)

\* Field(name=...) for every field written in specs; val: the Field ids.
RECURSIVE MakeFields(_, _, _, _)
MakeFields(H, specs, n, acc) ==
    IF n > Len(specs) THEN Res(H, OK, Seq_(acc))
    ELSE Bind(FieldInit(H, specs[n].l[1].s,
                        IF IsNone(specs[n].l[2]) THEN NoName
                        ELSE specs[n].l[2].s, None_), LAMBDA f :
              MakeFields(f.h, specs, n + 1, Append(acc, f.val.i)))

\* The field lists passed to build.
BuildArgs ==
    {<<FieldSpec("Integer", Text("x"))>>,
     <<FieldSpec("Text", Text("x"))>>,
     <<FieldSpec("Integer", Text("z"))>>,
     <<FieldSpec("Integer", Text("y")), FieldSpec("Text", None_)>>}

\* The class bodies: attribute names and the unnamed Fields assigned to them.
ClassBodies ==
    {<<FieldSpec("Integer", Text("x"))>>,
     <<FieldSpec("Integer", Text("y"))>>}

\* The arguments of a construction.
SchemaArgs == {<<>>, <<Int_(1)>>, <<Text("v")>>}

\* Bounds on the types, the Field objects and the instances of the scenario.
MaxTypes == 7

MaxFields == 4

MaxSchemaInsts == 1

InitSchema ==
    /\ fields = SchemaHeap.fields
    /\ types = SchemaHeap.types
    /\ insts = SchemaHeap.insts
    /\ lists = SchemaHeap.lists
    /\ proxies = <<>>
    /\ last = NoCall

FitsSchema ==
    /\ Len(types') <= MaxTypes
    /\ Len(fields') <= MaxFields
    /\ Len(insts') <= MaxSchemaInsts

\* class C(base): <body>
DoDefineClass(base, body) ==
    /\ Step("class", base, 0, body, <<>>,
            Bind(MakeFields(Heap, [n \in 1..Len(body) |->
                                      FieldSpec(body[n].l[1].s, None_)],
                            1, <<>>), LAMBDA fs :
                 MetaMappingNew(fs.h, "C", <<base>>,
                     [n \in 1..Len(body) |->
                         Entry(body[n].l[2].s, fs.val.l[n])], None_)))
    /\ UNCHANGED proxies

\* cls.build(Field(name=...), ...)
DoBuild(cls, specs) ==
    /\ Step("build", cls, 0, specs, <<>>,
            Bind(MakeFields(Heap, specs, 1, <<>>), LAMBDA fs :
                 Build(fs.h, cls, fs.val.l)))
    /\ UNCHANGED proxies

NextSchema ==
    \/ \E base \in {RecordT, AT}, body \in ClassBodies :
           DoDefineClass(base, body) /\ FitsSchema
    \/ \E cls \in {RecordT, AT}, specs \in BuildArgs :
           DoBuild(cls, specs) /\ FitsSchema
    \/ \E tid \in AT..Len(types), args \in SchemaArgs :
           DoConstruct(tid, args, <<>>) /\ FitsSchema

SpecSchema == InitSchema /\ [][NextSchema]_vars

\* The names of a schema, in order.
Names(fs) == [n \in 1..Len(fs) |-> fs[n].k]

\* C2: a successful build returns a type whose schema is exactly the fields
\* supplied, in the order supplied; a build with a field that has no name
\* fails with MissingFieldName.
C2_BuildSchemaExact ==
    last.op = "build" =>
        /\ (\E n \in 1..Len(last.args) : IsNone(last.args[n].l[2]))
               => last.err = "MissingFieldName"
        /\ last.err = OK =>
               Names(types[last.val.i]._fields)
                   = [n \in 1..Len(last.args) |-> last.args[n].l[2].s]

\* C5: every registered schema has pairwise distinct field names.
C5_DistinctFieldNames ==
    \A t \in 1..Len(types) :
        \A m, n \in 1..Len(types[t]._fields) :
            types[t]._fields[m].k = types[t]._fields[n].k => m = n

\* C10: a call of build leaves every type there was as it was, and the
\* field each of them resolves for a name of its schema the same.
C10_BuildFrame ==
    [][last'.op = "build" =>
          \A t \in 1..Len(types) :
              \A n \in 1..Len(types[t]._fields) :
                  Lookup(types', t, types[t]._fields[n].k)
                      = Lookup(types, t, types[t]._fields[n].k)]_vars

-----------------------------------------------------------------------------
(* Nested components.  The program has built                               *)
(*     N = Component.build(TextField(name='x'))                            *)
(*     O = Record.build(ComponentField(N, name='comp'))                    *)
(* It constructs instances of O, with and without a value for comp, and    *)
(* assigns the sub-field x of an instance's nested component.              *)

NT == Len(ModuleHeap.types) + 1

OT == Len(ModuleHeap.types) + 2

CompHeap ==
    Bind(FieldInit(ModuleHeap, "Text", "x", None_), LAMBDA x :
    Bind(Build(x.h, ComponentT, <<x.val.i>>), LAMBDA n :
    Bind(ComponentFieldInit(n.h, n.val.i, "comp", None_), LAMBDA c :
         Build(c.h, RecordT, <<c.val.i>>)))).h

\* The arguments of a construction of O.
CompArgs == {<<>>, <<Seq_(<<Text("v")>>)>>, <<Seq_(<<Int_(1)>>)>>}

\* The values assigned to a sub-field.
SubVals == {None_, Text("v"), Text("w"), Int_(1)}

\* Bound on the instances of N and O.
MaxCompInsts == 5

InitComp ==
    /\ fields = CompHeap.fields
    /\ types = CompHeap.types
    /\ insts = CompHeap.insts
    /\ lists = CompHeap.lists
    /\ proxies = <<>>
    /\ last = NoCall

\* inst.comp.x = value
DoSetSub(id, value) ==
    /\ insts[id].cls = OT
    /\ Step("setsub", id, 0, <<value>>, <<>>,
            Bind(GetAttr(Heap, id, "comp"), LAMBDA c :
                 SetAttr(c.h, c.val.i, "x", value)))
    /\ UNCHANGED proxies

NextComp ==
    \/ \E args \in CompArgs :
           DoConstruct(OT, args, <<>>) /\ Len(insts') <= MaxCompInsts
    \/ \E id \in 1..Len(insts), value \in SubVals : DoSetSub(id, value)

SpecComp == InitComp /\ [][NextComp]_vars

\* C8: assigning a sub-field of one instance's nested component leaves the
\* record and the nested component of every other instance of the type as
\* they were.
C8_NestedIsolation ==
    [][last'.op = "setsub" =>
          \A id \in 1..Len(insts) :
              (insts[id].cls = OT /\ id # last'.target) =>
                  /\ to_astm_record(Heap', id).val = to_astm_record(Heap, id).val
                  /\ insts'[id] = insts[id]]_vars

=============================================================================
